---------------------------- MODULE Spec2Model ----------------------------
(***************************************************************************)
(* Model of JavaProjectManager and main() of the two program variants      *)
(*   src/java_code_agent.py             (variant "basic")                  *)
(*   src/java_code_agent_openrouter.py  (variant "openrouter")             *)
(*                                                                         *)
(* State: the pom.xml file on disk, the position of the running session    *)
(* in main() and in update_pom_dependencies, the ElementTree held in       *)
(* memory between parse and write, and the results of the two Maven runs.  *)
(*                                                                         *)
(* The file is modelled as written markup (prefixed element names plus the *)
(* xmlns declarations of the root start tag); the tree in memory is        *)
(* modelled as ElementTree holds it (namespace-resolved tags).  ET_parse   *)
(* and ET_write convert between the two the way ElementTree does.          *)
(***************************************************************************)
EXTENDS Integers, Sequences, FiniteSets

\* Bounds of the model.
MaxCalls == 2       \* sessions (each makes one update_pom_dependencies call)
MaxDeps == 2        \* length of the dependencies argument

\* The namespace URI of the find() at update_pom_dependencies and of the default pom.
POM == "http://maven.apache.org/POM/4.0.0"
NoNS == ""

Variants == {"basic", "openrouter"}

\* Dependency declarations a caller may pass: a newer version of the key an initial
\* manifest may already hold at 1.0, and a second key.
Decls ==
  { [groupId |-> "x", artifactId |-> "y", version |-> "2.0"],
    [groupId |-> "x", artifactId |-> "z", version |-> "1.0"] }

DepLists == UNION { [1..n -> Decls] : n \in 0..MaxDeps }

Key(d) == <<d.groupId, d.artifactId>>

---------------------------------------------------------------------------
(* Markup on disk.                                                         *)
(* An element is [prefix, local, text, deps]: deps is the list of          *)
(* <dependency> children (of a dependencies element), each                 *)
(* [prefix, groupId, artifactId, version], the prefix being that of the    *)
(* dependency element and of its three children.                           *)

El(prefix, local, text) == [prefix |-> prefix, local |-> local, text |-> text, deps |-> <<>>]
DepsEl(prefix, deps) == [prefix |-> prefix, local |-> "dependencies", text |-> "", deps |-> deps]
DepEl(prefix, d) ==
  [prefix |-> prefix, groupId |-> d.groupId, artifactId |-> d.artifactId, version |-> d.version]

NoRoot == [prefix |-> "", local |-> "", xmlns |-> NoNS, xmlns_ns0 |-> NoNS]

\* No file at the path.
Absent == [exists |-> FALSE, head |-> FALSE, root |-> NoRoot, children |-> <<>>, closed |-> FALSE]
\* What open(path, "w") leaves: a file of length zero.
Truncated == [Absent EXCEPT !.exists = TRUE]

\* A complete document.
Doc(root, children) ==
  [exists |-> TRUE, head |-> TRUE, root |-> root, children |-> children, closed |-> TRUE]

\* The strict prefixes of a document's text, at element granularity: nothing, or the
\* root start tag followed by the first k children, the root end tag missing.
Prefixes(doc) ==
  {Truncated} \cup
  { [doc EXCEPT !.children = SubSeq(doc.children, 1, k), !.closed = FALSE] :
      k \in 0..Len(doc.children) }

\* The pass-through content of the default pom: identity fields, properties, build.
DefaultHead(p) ==
  << El(p, "modelVersion", "4.0.0"),
     El(p, "groupId", "com.example"),
     El(p, "artifactId", "java-autogen-project"),
     El(p, "version", "1.0-SNAPSHOT"),
     El(p, "properties", "compiler 11/11, UTF-8, junit 5.9.2, created by xlisp at 2025-04-10 06:41:25") >>
DefaultTail(p) ==
  << El(p, "build", "plugins: maven-surefire-plugin 3.0.0, maven-compiler-plugin 3.10.1") >>

\* pom_content of _create_default_pom: default namespace POM, an empty dependencies section.
DefaultPomText ==
  Doc([prefix |-> "", local |-> "project", xmlns |-> POM, xmlns_ns0 |-> NoNS],
      DefaultHead("") \o << DepsEl("", <<>>) >> \o DefaultTail(""))


\* Manifests that may be on disk before the first session: none, an empty file
\* (unparsable), a project file in the POM default namespace with no dependencies
\* section, an empty one, or one entry, or a project file that declares no namespace.
HandWritten(ns, mid) ==
  Doc([prefix |-> "", local |-> "project", xmlns |-> ns, xmlns_ns0 |-> NoNS],
      DefaultHead("") \o mid \o DefaultTail(""))

OneEntry == << DepsEl("", << DepEl("", [groupId |-> "x", artifactId |-> "y", version |-> "1.0"]) >>) >>

InitialFiles ==
  {Absent, Truncated, HandWritten(NoNS, OneEntry)} \cup
  { HandWritten(POM, mid) : mid \in { <<>>, << DepsEl("", <<>>) >>, OneEntry } }

---------------------------------------------------------------------------
(* ElementTree.                                                            *)
(* A tree is [ns, local, children]; a child is [ns, local, text, deps], a  *)
(* dependency node [ns, groupId, artifactId, version]: ns is the URI of    *)
(* the "{uri}local" tag, NoNS for a tag without braces.                    *)

NoTree == [ns |-> NoNS, local |-> "", children |-> <<>>]

\* The namespace a prefix stands for under the root start tag's declarations.
Resolve(root, prefix) == IF prefix = "" THEN root.xmlns ELSE root.xmlns_ns0

\* A used prefix must be declared (expat: "unbound prefix").
Bound(root, prefix) == prefix = "" \/ root.xmlns_ns0 # NoNS

\* ET.parse succeeds: the file exists, the root element is complete, prefixes are bound.
WellFormed(f) ==
  /\ f.exists /\ f.head /\ f.closed
  /\ Bound(f.root, f.root.prefix)
  /\ \A i \in 1..Len(f.children) :
       /\ Bound(f.root, f.children[i].prefix)
       /\ \A j \in 1..Len(f.children[i].deps) : Bound(f.root, f.children[i].deps[j].prefix)

ParseDep(root, e) ==
  [ns |-> Resolve(root, e.prefix), groupId |-> e.groupId,
   artifactId |-> e.artifactId, version |-> e.version]

ParseEl(root, e) ==
  [ns |-> Resolve(root, e.prefix), local |-> e.local, text |-> e.text,
   deps |-> [j \in 1..Len(e.deps) |-> ParseDep(root, e.deps[j])]]

\* tree = ET.parse(self.pom_path); root = tree.getroot()   (of a well-formed file)
ET_parse(f) ==
  [ns |-> Resolve(f.root, f.root.prefix), local |-> f.root.local,
   children |-> [i \in 1..Len(f.children) |-> ParseEl(f.root, f.children[i])]]

\* The namespace URIs used by the tags of a tree.
Namespaces(t) ==
  ({t.ns} \cup {t.children[i].ns : i \in 1..Len(t.children)}
          \cup UNION { {t.children[i].deps[j].ns : j \in 1..Len(t.children[i].deps)} :
                         i \in 1..Len(t.children) }) \ {NoNS}

\* A faulty QName: tags are written without a prefix, whatever their namespace.
QName_unqualified(ns) == ""

\* The prefix tree.write gives a tag: none for a tag without a namespace, the
\* generated prefix ns0 for a tag in a namespace (no default_namespace is passed).
QName(ns) == IF ns = NoNS THEN "" ELSE "ns0"

WriteDep(d) ==
  [prefix |-> QName(d.ns), groupId |-> d.groupId,
   artifactId |-> d.artifactId, version |-> d.version]

WriteEl(c) ==
  [prefix |-> QName(c.ns), local |-> c.local, text |-> c.text,
   deps |-> [j \in 1..Len(c.deps) |-> WriteDep(c.deps[j])]]

\* The text tree.write(self.pom_path, encoding="utf-8", xml_declaration=True) produces:
\* xmlns:ns0 is declared on the root for the namespace in use, no default xmlns.
ET_write(t) ==
  Doc([prefix |-> QName(t.ns), local |-> t.local, xmlns |-> NoNS,
       xmlns_ns0 |-> IF Namespaces(t) = {} THEN NoNS ELSE CHOOSE u \in Namespaces(t) : TRUE],
      [i \in 1..Len(t.children) |-> WriteEl(t.children[i])])

\* root.find("{http://maven.apache.org/POM/4.0.0}dependencies"): the index of the
\* first child with that tag, 0 for None.
FindDependencies(t) ==
  LET hits == {i \in 1..Len(t.children) :
                 t.children[i].ns = POM /\ t.children[i].local = "dependencies"}
  IN IF hits = {} THEN 0 ELSE CHOOSE i \in hits : \A k \in hits : i <= k

\* ET.SubElement(new_dep, "groupId") ... : the new nodes carry tags without a namespace.
NewDep(dep) ==
  [ns |-> NoNS, groupId |-> dep.groupId, artifactId |-> dep.artifactId, version |-> dep.version]

\* The find-or-create of the dependencies section and the loop over dependencies.
AddDependencies(t, deps) ==
  LET found == FindDependencies(t)
      t1 == IF found = 0
              THEN [t EXCEPT !.children =
                      Append(@, [ns |-> NoNS, local |-> "dependencies", text |-> "", deps |-> <<>>])]
              ELSE t
      at == IF found = 0 THEN Len(t1.children) ELSE found
  IN [t1 EXCEPT !.children[at].deps = @ \o [k \in 1..Len(deps) |-> NewDep(deps[k])]]

---------------------------------------------------------------------------
(* subprocess.run(["mvn", phase], ...): it raises (the executable is       *)
(* missing, permission is denied) or returns a completed process.          *)

RunOutcomes ==
  { [kind |-> "raised", returncode |-> 0, text |-> "FileNotFoundError: mvn"],
    [kind |-> "returned", returncode |-> 0, text |-> "BUILD SUCCESS"],
    [kind |-> "returned", returncode |-> 1, text |-> "BUILD FAILURE"] }

NoOutcome == [kind |-> "none", returncode |-> 0, text |-> ""]
NoResult == [ran |-> FALSE, raised |-> FALSE, succeeded |-> FALSE, output |-> ""]

\* A faulty compile_project: no try/except around subprocess.run.
compile_project_no_except(outcome) ==
  IF outcome.kind = "raised"
    THEN [ran |-> TRUE, raised |-> TRUE, succeeded |-> FALSE, output |-> ""]
    ELSE [ran |-> TRUE, raised |-> FALSE, succeeded |-> (outcome.returncode = 0),
          output |-> outcome.text]

\* compile_project: (returncode == 0, stdout), or (False, str(e)) for any exception.
compile_project(outcome) ==
  IF outcome.kind = "raised"
    THEN [ran |-> TRUE, raised |-> FALSE, succeeded |-> FALSE, output |-> outcome.text]
    ELSE [ran |-> TRUE, raised |-> FALSE, succeeded |-> (outcome.returncode = 0),
          output |-> outcome.text]

\* run_tests: the same shape with ["mvn", "test"].
run_tests(outcome) ==
  IF outcome.kind = "raised"
    THEN [ran |-> TRUE, raised |-> FALSE, succeeded |-> FALSE, output |-> outcome.text]
    ELSE [ran |-> TRUE, raised |-> FALSE, succeeded |-> (outcome.returncode = 0),
          output |-> outcome.text]

---------------------------------------------------------------------------
VARIABLES
  variant,         \* which of the two programs runs
  file,            \* pom.xml on disk
  pc,              \* position of the session in main() / update_pom_dependencies
  calls,           \* sessions started so far
  dependencies,    \* the argument of the running update_pom_dependencies call
  tree,            \* the ElementTree between parse and write
  exc,             \* the exception update_pom_dependencies raised ("" for none)
  updateStatus,    \* "none", "ok" (the call returned) or "failed" (it raised)
  compileOutcome,  \* what subprocess.run did in compile_project
  compileRes,      \* what compile_project gave main()
  testOutcome,     \* what subprocess.run did in run_tests
  testRes,         \* what run_tests gave main()
  entryFile,       \* history: pom.xml when the running call was entered
  initFile,        \* history: pom.xml before the first session
  added            \* history: the declarations of the calls that returned, in order

vars == <<variant, file, pc, calls, dependencies, tree, exc, updateStatus,
          compileOutcome, compileRes, testOutcome, testRes, entryFile, initFile, added>>

buildVars == <<compileOutcome, compileRes, testOutcome, testRes>>
histVars == <<initFile, added>>

Init ==
  /\ variant \in Variants
  /\ file \in InitialFiles
  /\ initFile = file
  /\ entryFile = file
  /\ pc = "idle"
  /\ calls = 0
  /\ dependencies = <<>>
  /\ tree = NoTree
  /\ exc = ""
  /\ updateStatus = "none"
  /\ compileOutcome = NoOutcome /\ compileRes = NoResult
  /\ testOutcome = NoOutcome /\ testRes = NoResult
  /\ added = <<>>

\* main() up to the call project_manager.update_pom_dependencies(dependencies).  main()
\* passes a fixed list; the method is modelled for every list a caller may pass.
main_start ==
  /\ pc \in {"idle", "done", "failed", "killed"}
  /\ calls < MaxCalls
  /\ \E deps \in DepLists : dependencies' = deps
  /\ calls' = calls + 1
  /\ pc' = "update_enter"
  /\ entryFile' = file
  /\ tree' = NoTree /\ exc' = "" /\ updateStatus' = "none"
  /\ compileOutcome' = NoOutcome /\ compileRes' = NoResult
  /\ testOutcome' = NoOutcome /\ testRes' = NoResult
  /\ UNCHANGED <<variant, file, histVars>>

\* if not self.pom_path.exists(): raise FileNotFoundError (basic), or
\* self._create_default_pom(), which starts with open(self.pom_path, 'w') (openrouter).
update_check_exists ==
  /\ pc = "update_enter"
  /\ IF file.exists
       THEN pc' = "update_parse" /\ UNCHANGED <<file, exc>>
       ELSE IF variant = "basic"
         THEN pc' = "update_raised" /\ exc' = "FileNotFoundError" /\ UNCHANGED file
         ELSE pc' = "default_writing" /\ file' = Truncated /\ UNCHANGED exc
  /\ UNCHANGED <<variant, calls, dependencies, tree, updateStatus, buildVars, entryFile, histVars>>

\* _create_default_pom: f.write(pom_content) and the close complete.
create_default_pom_written ==
  /\ pc = "default_writing"
  /\ file' = DefaultPomText
  /\ pc' = "update_parse"
  /\ UNCHANGED <<variant, calls, dependencies, tree, exc, updateStatus, buildVars, entryFile, histVars>>

\* The write of the default pom stops part-way: the write fails (OSError, raised to
\* main() from outside the try of update_pom_dependencies) or the process is killed.
create_default_pom_interrupted ==
  /\ pc = "default_writing"
  /\ \E part \in Prefixes(DefaultPomText) : file' = part
  /\ \E cause \in {"OSError", "killed"} :
       IF cause = "killed"
         THEN pc' = "killed" /\ UNCHANGED exc
         ELSE pc' = "update_raised" /\ exc' = cause
  /\ UNCHANGED <<variant, calls, dependencies, tree, updateStatus, buildVars, entryFile, histVars>>

\* tree = ET.parse(...); find or create the dependencies section; append one
\* dependency per declaration.  A file that does not parse raises ParseError.
update_parse_and_add ==
  /\ pc = "update_parse"
  /\ IF WellFormed(file)
       THEN /\ tree' = AddDependencies(ET_parse(file), dependencies)
            /\ pc' = "update_write"
            /\ UNCHANGED exc
       ELSE /\ pc' = "update_raised"
            /\ exc' = "ParseError"
            /\ UNCHANGED tree
  /\ UNCHANGED <<variant, file, calls, dependencies, updateStatus, buildVars, entryFile, histVars>>

\* tree.write(self.pom_path, ...) opens the path for writing, which empties the file,
\* or fails to open it (OSError) and leaves it as it is.
update_write_open ==
  /\ pc = "update_write"
  /\ \E opened \in BOOLEAN :
       IF opened
         THEN file' = Truncated /\ pc' = "update_writing" /\ UNCHANGED exc
         ELSE pc' = "update_raised" /\ exc' = "OSError" /\ UNCHANGED file
  /\ UNCHANGED <<variant, calls, dependencies, tree, updateStatus, buildVars, entryFile, histVars>>

\* tree.write serializes the whole tree and closes the file; the call returns.
update_write_done ==
  /\ pc = "update_writing"
  /\ file' = ET_write(tree)
  /\ pc' = "update_returned"
  /\ added' = added \o dependencies
  /\ UNCHANGED <<variant, calls, dependencies, tree, exc, updateStatus, buildVars, entryFile, initFile>>

\* tree.write stops part-way: the write fails (OSError, logged and re-raised) or the
\* process is killed.
update_write_interrupted ==
  /\ pc = "update_writing"
  /\ \E part \in Prefixes(ET_write(tree)) : file' = part
  /\ \E cause \in {"OSError", "killed"} :
       IF cause = "killed"
         THEN pc' = "killed" /\ UNCHANGED exc
         ELSE pc' = "update_raised" /\ exc' = cause
  /\ UNCHANGED <<variant, calls, dependencies, tree, updateStatus, buildVars, entryFile, histVars>>

\* main() after update_pom_dependencies returned: on to the build.
main_update_returned ==
  /\ pc = "update_returned"
  /\ updateStatus' = "ok"
  /\ pc' = "compile"
  /\ UNCHANGED <<variant, file, calls, dependencies, tree, exc, buildVars, entryFile, histVars>>

\* main() after update_pom_dependencies raised: basic catches the exception, prints
\* it and goes on; openrouter logs it and re-raises, which ends the session.
main_update_raised ==
  /\ pc = "update_raised"
  /\ updateStatus' = "failed"
  /\ pc' = IF variant = "basic" THEN "compile" ELSE "failed"
  /\ UNCHANGED <<variant, file, calls, dependencies, tree, exc, buildVars, entryFile, histVars>>

\* success, output = project_manager.compile_project(); basic goes on to the tests
\* whatever the result, openrouter only if compile_success.
main_compile ==
  /\ pc = "compile"
  /\ \E outcome \in RunOutcomes :
       /\ compileOutcome' = outcome
       /\ compileRes' = compile_project(outcome)
       /\ pc' = IF compile_project(outcome).raised THEN "failed"
                ELSE IF variant = "basic" \/ compile_project(outcome).succeeded
                  THEN "test" ELSE "done"
  /\ UNCHANGED <<variant, file, calls, dependencies, tree, exc, updateStatus,
                 testOutcome, testRes, entryFile, histVars>>

\* success, output = project_manager.run_tests()
main_run_tests ==
  /\ pc = "test"
  /\ \E outcome \in RunOutcomes :
       /\ testOutcome' = outcome
       /\ testRes' = run_tests(outcome)
       /\ pc' = IF run_tests(outcome).raised THEN "failed" ELSE "done"
  /\ UNCHANGED <<variant, file, calls, dependencies, tree, exc, updateStatus,
                 compileOutcome, compileRes, entryFile, histVars>>

Next ==
  \/ main_start
  \/ update_check_exists
  \/ create_default_pom_written
  \/ create_default_pom_interrupted
  \/ update_parse_and_add
  \/ update_write_open
  \/ update_write_done
  \/ update_write_interrupted
  \/ main_update_returned
  \/ main_update_raised
  \/ main_compile
  \/ main_run_tests

Spec == Init /\ [][Next]_vars

---------------------------------------------------------------------------
(* Reading a manifest back.                                                *)

\* The places <<i, j>> of the dependency nodes of a tree: node j of child i, for
\* every child named dependencies, in a namespace or not.
Entries(t) ==
  { <<i, j>> \in (1..Len(t.children)) \X (1..(MaxCalls * MaxDeps + 1)) :
      t.children[i].local = "dependencies" /\ j <= Len(t.children[i].deps) }

EntryAt(t, p) == t.children[p[1]].deps[p[2]]

\* The children of the root named dependencies.
DependenciesSections(t) == {i \in 1..Len(t.children) : t.children[i].local = "dependencies"}

Triple(e) == [groupId |-> e.groupId, artifactId |-> e.artifactId, version |-> e.version]

\* A namespace-qualified load: the triples of the {POM}dependency nodes of the
\* {POM}dependencies section, in order.
Qualified(e) == e.ns = POM
NamespacedLoad(t) ==
  IF FindDependencies(t) = 0 THEN <<>>
  ELSE LET qs == SelectSeq(t.children[FindDependencies(t)].deps, Qualified)
       IN [k \in 1..Len(qs) |-> Triple(qs[k])]

\* Everything of a tree outside its dependencies sections, in order.
NotDependencies(c) == c.local # "dependencies"
PassThrough(t) == SelectSeq(t.children, NotDependencies)

\* The manifest a call works on: the file found at entry, or the default it creates.
Before == IF entryFile.exists THEN entryFile ELSE DefaultPomText

---------------------------------------------------------------------------
(* The claims.                                                             *)

\* C1: after an update_pom_dependencies call returns, the manifest holds at most one
\* dependency entry for each identity key (groupId, artifactId).
C1_OneEntryPerKey ==
  pc = "update_returned" =>
    \A p, q \in Entries(ET_parse(file)) :
      Key(EntryAt(ET_parse(file), p)) = Key(EntryAt(ET_parse(file), q)) => p = q

\* C2: the test phase is invoked only after a compile phase that returned success.
C2_TestOnlyAfterSuccessfulCompile ==
  testRes.ran => (compileRes.ran /\ compileRes.succeeded)

\* C3: when a declaration (g, a, v2) is passed and the manifest already has an entry
\* with key (g, a) and another version, every entry with key (g, a) has version v2
\* after the call (for the last declaration of each key in the list).
C3_VersionReplaced ==
  pc = "update_returned" =>
    \A i \in 1..Len(dependencies) :
      ( /\ \A k \in (i+1)..Len(dependencies) : Key(dependencies[k]) # Key(dependencies[i])
        /\ \E p \in Entries(ET_parse(Before)) :
             /\ Key(EntryAt(ET_parse(Before), p)) = Key(dependencies[i])
             /\ EntryAt(ET_parse(Before), p).version # dependencies[i].version )
      => \A q \in Entries(ET_parse(file)) :
           Key(EntryAt(ET_parse(file), q)) = Key(dependencies[i])
             => EntryAt(ET_parse(file), q).version = dependencies[i].version

\* C4: a build phase is invoked only after the manifest update has completed and been
\* persisted; a session whose manifest update failed ends with that failure and
\* invokes no build phase.
C4_BuildOnlyAfterManifestUpdate ==
  /\ (compileRes.ran \/ testRes.ran) => (updateStatus = "ok" /\ file = ET_write(tree))
  /\ updateStatus = "failed" => (pc = "failed" /\ ~compileRes.ran /\ ~testRes.ran)

\* What a phase's result must be, given what subprocess.run did.
PhaseResultOK(outcome, res) ==
  res.ran =>
    /\ ~res.raised
    /\ outcome.kind \in {"raised", "returned"}
    /\ outcome.kind = "raised" => (~res.succeeded /\ res.output = outcome.text)
    /\ outcome.kind = "returned" => (res.succeeded <=> outcome.returncode = 0)

\* C5: a phase always gives main() a result and never raises; a launch failure gives
\* succeeded = false with the failure description as output, and a completed process
\* gives succeeded = true exactly when its exit status is 0.
C5_PhaseReturnsResult ==
  /\ PhaseResultOK(compileOutcome, compileRes)
  /\ PhaseResultOK(testOutcome, testRes)
  /\ pc \in {"test", "done"} => compileRes.ran
  /\ pc = "failed" => ~compileRes.ran

\* C5 witness: the compile process completed with status 0 and the launch of the
\* test phase failed.
C5_Witness ==
  /\ compileRes.ran /\ compileOutcome.kind = "returned" /\ compileOutcome.returncode = 0
  /\ testRes.ran /\ testOutcome.kind = "raised" /\ ~testRes.succeeded

\* C6: when no manifest exists at entry, its absence is not reported as an error, and
\* the call goes on with a persisted default document that parses and has a
\* dependencies section with zero entries.
C6_DefaultManifest ==
  ~entryFile.exists =>
    /\ exc # "FileNotFoundError"
    /\ pc = "update_parse" =>
         /\ WellFormed(file)
         /\ FindDependencies(ET_parse(file)) # 0
         /\ Entries(ET_parse(file)) = {}

\* C7: when a save (or the creation of the default manifest) is interrupted or fails,
\* the path holds the complete prior document or the complete new one.
C7_AtomicSave ==
  (pc = "killed" \/ exc = "OSError") =>
    \/ file = entryFile
    \/ file = DefaultPomText
    \/ (tree # NoTree /\ file = ET_write(tree))

\* C8: every element of the written manifest is in the manifest's namespace, the added
\* dependency elements included; after the creation of the default manifest and an
\* update with one declaration, a namespace-qualified load shows exactly that triple.
C8_NamespaceOnEveryElement ==
  pc = "update_returned" =>
    /\ \A i \in 1..Len(ET_parse(file).children) :
         ET_parse(file).children[i].ns = ET_parse(file).ns
    /\ \A p \in Entries(ET_parse(file)) :
         EntryAt(ET_parse(file), p).ns = ET_parse(file).ns
    /\ (~entryFile.exists /\ Len(dependencies) = 1)
         => NamespacedLoad(ET_parse(file)) = dependencies

\* C9: when update_pom_dependencies returns, the namespace identifier, the root and
\* every section outside the dependencies section (identity fields, properties,
\* build) are what they were in the manifest the call worked on, in the same order.
C9_FrameOutsideDependencies ==
  pc = "update_returned" =>
    /\ WellFormed(file)
    /\ ET_parse(file).ns = ET_parse(Before).ns
    /\ ET_parse(file).local = ET_parse(Before).local
    /\ PassThrough(ET_parse(file)) = PassThrough(ET_parse(Before))

\* C9 witness: a call with the empty list on an existing manifest returned, and the
\* text on disk is not the text that was read.
C9_Witness ==
  /\ pc = "update_returned"
  /\ entryFile.exists
  /\ dependencies = <<>>
  /\ file # entryFile
  /\ Len(PassThrough(ET_parse(file))) > 0

\* C10: starting from a manifest with no dependencies section, after any number of
\* calls the document has exactly one dependencies section, which holds every entry
\* the calls added.
C10_OneDependenciesSection ==
  ( /\ pc = "update_returned"
    /\ WellFormed(initFile)
    /\ DependenciesSections(ET_parse(initFile)) = {} )
  => /\ Cardinality(DependenciesSections(ET_parse(file))) = 1
     /\ \A i \in DependenciesSections(ET_parse(file)) :
          [k \in 1..Len(ET_parse(file).children[i].deps) |->
             Triple(ET_parse(file).children[i].deps[k])] = added

===========================================================================
